---- MODULE Spec2Model ----
(***************************************************************************)
(* Model of the two graph data structures of OntologyTreeVisualizer:       *)
(*   - DistanceMatrix (src/unnamed/part_000, required as ./distanceMatrix) *)
(*     the weighted undirected graph with its all-pairs compile step;      *)
(*   - TreeBuilder (src/core/TreeBuilder.js), the forest registry with     *)
(*     single-parent enforcement and compile-time cycle detection.         *)
(* A JavaScript object used as a registry is an insertion-ordered map: it  *)
(* is modelled by a function (the map) and a sequence (Object.keys order). *)
(* Ids are strings that are not array indices, so Object.keys yields them  *)
(* in insertion order.                                                     *)
(***************************************************************************)
EXTENDS Integers, Sequences, FiniteSets, TLC

(***************************************************************************)
(* Bounds of the model.                                                    *)
(***************************************************************************)
\* number of distinct node ids offered to the DistanceMatrix
NumGraphIds == 3
\* total number of successful addEdge calls on the DistanceMatrix
MaxEdgeCalls == 3

\* number of distinct node ids offered to the DistanceMatrix when the claim
\* needs a path of three edges
NumWideIds == 4
\* number of distinct record ids offered to the TreeBuilder, in records
\* without a name field
NumTreeIds == 3
\* number of distinct record ids offered to the TreeBuilder in records with
\* and without a name field (two different records for every id)
NumRecordIds == 2

\* number of ids offered to the DistanceMatrix when its identifier function is
\* set by the caller; every id is offered in two spellings
NumRawIds == 2

\* number of distinct term names in the ontology dataset
NumTermNames == 3
\* number of term records in data['Description']
MaxTerms == 2

\* number of term records in the ontology file the server loads
MaxLoadedTerms == 1
\* number of rows in the definitions file the server loads
MaxDefinitionRows == 2
\* number of distinct record ids, none of them 'root', offered to a
\* TreeBuilder that is filled through addChild alone
NumTermIds == 4
\* number of addChild calls that return in a run of that builder
MaxAttachCalls == 3
\* number of nodes of the hierarchy the tree visualization shows, its root
\* included
NumHierarchyNodes == 4

\* pool of id strings; the first NumGraphIds (NumWideIds) of them are used
IdPool == <<"A", "B", "C", "D", "E", "F">>
GraphIds == {IdPool[i] : i \in 1..NumGraphIds}
WideIds == {IdPool[i] : i \in 1..NumWideIds}
\* the same ids in lower case: other raw values for them
LowerPool == <<"a", "b", "c", "d", "e", "f">>
RawIds == {IdPool[i] : i \in 1..NumRawIds} \cup {LowerPool[i] : i \in 1..NumRawIds}

\* pool of record ids for the TreeBuilder; "root" is also the name compile()
\* gives its synthetic root
TreeIdPool == <<"root", "x", "y", "z", "w", "v">>
TreeIds == {TreeIdPool[i] : i \in 1..NumTreeIds}
\* a record without a name field, and the name fields records carry
NoName == "<no name>"
Undefined == "<undefined>"
NameVals == {NoName, "term"}
\* the records handed to the TreeBuilder: {id: ...}, as parseOntology builds them
PlainRecords == [id : TreeIds, name : {NoName}]
\* records whose id is none of them 'root', the name of compile()'s own root
TermIds == {TreeIdPool[i + 1] : i \in 1..NumTermIds}
TermIdRecords == [id : TermIds, name : {NoName}]
\* {id: ...} and {id: ..., name: ...}: different records that share an id
RecordIds == {TreeIdPool[i] : i \in 1..NumRecordIds}
RichRecords == [id : RecordIds, name : NameVals]

\* the values handed to a TreeBuilder with any identifier function: objects
\* with an id, an optional name and a uri, and strings. `str` is String(value),
\* what the value is as a property key.
ObjectKey == "[object Object]"
ObjectValues == [id : RecordIds, name : NameVals, uri : {"u"}, str : {ObjectKey}]
StringValues == [id : {Undefined}, name : {NoName}, uri : {Undefined}, str : RecordIds]
AnyValues == ObjectValues \cup StringValues

\* const INF = 100000009 in compile()
INF == 100000009

Min(a, b) == IF a <= b THEN a ELSE b
SeqToSet(s) == {s[i] : i \in 1..Len(s)}
\* Array.prototype.indexOf, 1-based; 0 when absent (JavaScript's -1)
IndexOf(s, x) == IF x \in SeqToSet(s) THEN CHOOSE i \in 1..Len(s) : s[i] = x /\ \A k \in 1..(i-1) : s[k] # x ELSE 0

VARIABLES
  dmGraph,   \* DistanceMatrix: `graph`, id -> [name, neighbors, data]
  dmKeys,    \* DistanceMatrix: Object.keys(graph), in insertion order
  dmSz,      \* DistanceMatrix: `sz`
  dmRet,     \* what the last DistanceMatrix call returned or threw
  dmEdgeCalls, \* history: {first, second} -> number of addEdge calls that returned
  dmIdentifier \* DistanceMatrix: `identifier`, the function in use

VARIABLES
  tbTree,    \* TreeBuilder: `tree`, id -> [children, parent, data, id, name]
  tbKeys,    \* TreeBuilder: Object.keys(tree), in insertion order
  tbSz,      \* TreeBuilder: `sz`
  tbRet,     \* what the last TreeBuilder call returned or threw
  tbIdentifier, \* TreeBuilder: `identifier`, the function given to TreeBuilder()
  tbAttached \* history: parent id -> the child ids of the addChild calls that
             \* returned, in call order

VARIABLES
  ontology,  \* DataPreprocessing: the ontology dataset, data['Description']
  names,     \* parseOntology: `names`, the term names accepted so far
  childCalls, \* history: the child ids parseOntology passed to tree.addChild
  poRet      \* what parseOntology returned or threw

dmVars == <<dmGraph, dmKeys, dmSz, dmRet, dmEdgeCalls, dmIdentifier>>
VARIABLES
  definitions, \* DataPreprocessing: the rows of the definitions dataset
  selfTree,    \* DataPreprocessing: self.tree
  selfDistanceMatrix, \* DataPreprocessing: self.distanceMatrix
  pc,          \* where the process is: loadData awaiting, loaded, rejected, exited
  response,    \* what the last request handler sent
  compileCalls \* history: how often tree.compile() and distanceMatrix.compile() ran

VARIABLES
  hierarchy,  \* d3Tree: the data given to d3.hierarchy, node -> its parent
  dChildren,  \* d3Tree: d.children of every node d of `root`
  d_children, \* d3Tree: d._children of every node d of `root`
  clicks,     \* d3Tree: `clicks`
  timer,      \* d3Tree: the node of the pending setTimeout callback of `timer`
  rendered,   \* d3Tree: the nodes that have a g.node element, with its handlers
  d3Ret       \* what the last event handler of the visualization did

poVars == <<ontology, names, childCalls, poRet>>
d3Vars == <<hierarchy, dChildren, d_children, clicks, timer, rendered, d3Ret>>
svVars == <<definitions, selfTree, selfDistanceMatrix, pc, response, compileCalls>>
tbVars == <<tbTree, tbKeys, tbSz, tbRet, tbIdentifier, tbAttached>>
vars == <<dmVars, tbVars, poVars, svVars, d3Vars>>
\* what a call on the DistanceMatrix (on the TreeBuilder) cannot touch
outsideDM == <<tbVars, poVars, svVars, d3Vars>>
outsideTB == <<dmVars, poVars, svVars, d3Vars>>
\* what the handlers of the visualization cannot touch: it runs in the browser
outsideD3 == <<dmVars, tbVars, poVars, svVars>>

(***************************************************************************)
(* DistanceMatrix                                                          *)
(***************************************************************************)
\* the value of a call that returns nothing, and of compile() on a cycle
JSUndefined == [type |-> "undefined"]

DMDuplicateError == [op |-> "createNode", kind |-> "throw", value |-> "There is an existing node with the same Id!"]
DMIdNotFound == [op |-> "compile", kind |-> "throw", value |-> "id is not found"]

\* the identifier functions a caller can be using: the default d => d, and a
\* function that maps several raw values to one id
IdentityFn == "d => d"
UpperCaseFn == "d => d.toUpperCase()"
IdentifierFns == {IdentityFn, UpperCaseFn}

\* String.prototype.toUpperCase on the raw values of the model
ToUpperCase(d) ==
  IF \E i \in 1..Len(LowerPool) : LowerPool[i] = d
  THEN IdPool[CHOOSE i \in 1..Len(LowerPool) : LowerPool[i] = d]
  ELSE d

\* identifier(d), for the function in use (let identifier = d => d at first)
DMIdentifier(d) == IF dmIdentifier = IdentityFn THEN d ELSE ToUpperCase(d)

\* graph.hasOwnProperty(nodeId)
DMHas(g, nodeId) == nodeId \in DOMAIN g

\* distanceMatrix.size: Object.keys(graph).length
DMSize(keys) == Len(keys)

\* the object literal createNode stores under graph[nodeId]
DMNewNode(node) == [name |-> DMIdentifier(node), neighbors |-> << >>, data |-> node]

\* graph[nodeId] = {...} on an absent key: the key is appended to the key order
DMPut(g, nodeId, value) == [k \in DOMAIN g \cup {nodeId} |-> IF k = nodeId THEN value ELSE g[k]]

\* getNode(first) is undefined and createNode(first) throws: the raw value is
\* no key of the graph, its id is
DMCreateThrows(st, rec) == ~ DMHas(st.g, rec) /\ DMHas(st.g, DMIdentifier(rec))

\* the key of the node object that getNode(first), or else createNode(first),
\* yields
DMNodeOf(st, rec) == IF DMHas(st.g, rec) THEN rec ELSE DMIdentifier(rec)

\* getNode(first) followed by createNode(first) when it is undefined;
\* yields the registry and key order after resolving one endpoint (as they
\* were when createNode throws)
DMResolve(st, rec) ==
  IF DMHas(st.g, rec) \/ DMCreateThrows(st, rec) THEN st
  ELSE [g |-> DMPut(st.g, DMIdentifier(rec), DMNewNode(rec)),
        keys |-> Append(st.keys, DMIdentifier(rec)),
        sz |-> st.sz + 1]

\* a changed DMInitNeighbor: the weight is set to 0 on every call
DMInitNeighbor_Resets(g, id, other) ==
  [g EXCEPT ![id].neighbors = [k \in DOMAIN g[id].neighbors \cup {other} |-> IF k = other THEN 0 ELSE g[id].neighbors[k]]]

\* if (!node.neighbors[other]) node.neighbors[other] = 0
DMInitNeighbor(g, id, other) ==
  IF other \in DOMAIN g[id].neighbors /\ g[id].neighbors[other] # 0 THEN g
  ELSE [g EXCEPT ![id].neighbors = [k \in DOMAIN g[id].neighbors \cup {other} |-> IF k = other THEN 0 ELSE g[id].neighbors[k]]]

\* a changed DMBumpNeighbor: the weight is set to 1 instead of incremented
DMBumpNeighbor_Capped(g, id, other) == [g EXCEPT ![id].neighbors[other] = 1]

\* node.neighbors[other] += 1
DMBumpNeighbor(g, id, other) == [g EXCEPT ![id].neighbors[other] = @ + 1]

\* a changed DMLinkBoth: the second node's weight is initialised, never incremented
DMLinkBoth_OneWay(g, firstNode, secondNode, first, second) ==
  LET g1 == DMInitNeighbor(g, firstNode, second)
      g2 == DMInitNeighbor(g1, secondNode, first)
  IN DMBumpNeighbor(g2, firstNode, second)

\* the four neighbour statements of addEdge, in the order of the code, on the
\* nodes with keys firstNode and secondNode; the neighbour keys are the raw
\* arguments first and second
DMLinkBoth(g, firstNode, secondNode, first, second) ==
  LET g1 == DMInitNeighbor(g, firstNode, second)
      g2 == DMInitNeighbor(g1, secondNode, first)
      g3 == DMBumpNeighbor(g2, firstNode, second)
  IN DMBumpNeighbor(g3, secondNode, first)

\* number of addEdge calls the registry has absorbed (each adds 2 to the total)
DMTotalWeight(g) ==
  LET RECURSIVE Sum(_)
      Sum(S) == IF S = {} THEN 0
                ELSE LET p == CHOOSE q \in S : TRUE IN g[p[1]].neighbors[p[2]] + Sum(S \ {p})
  IN Sum({p \in (DOMAIN g) \X (DOMAIN g) : p[2] \in DOMAIN g[p[1]].neighbors})

DMCreateNode(node) ==
  LET nodeId == DMIdentifier(node) IN
  IF DMHas(dmGraph, nodeId)
  THEN /\ dmRet' = DMDuplicateError
       /\ UNCHANGED <<dmGraph, dmKeys, dmSz, dmEdgeCalls, dmIdentifier>>
       /\ UNCHANGED outsideDM
  ELSE /\ dmGraph' = DMPut(dmGraph, nodeId, DMNewNode(node))
       /\ dmKeys' = Append(dmKeys, nodeId)
       /\ dmSz' = dmSz + 1
       /\ dmRet' = [op |-> "createNode", kind |-> "return", value |-> [type |-> "node", id |-> nodeId]]
       /\ UNCHANGED <<dmEdgeCalls, dmIdentifier>>
       /\ UNCHANGED outsideDM

\* the registry as one value: graph, Object.keys(graph), sz
DMState == [g |-> dmGraph, keys |-> dmKeys, sz |-> dmSz]

\* addEdge throws: one of its two createNode calls does
DMAddEdgeThrows(st, first, second) ==
  DMCreateThrows(st, first) \/ DMCreateThrows(DMResolve(st, first), second)

\* addEdge as a function of the registry: the registry it leaves, also when
\* it throws
DMAddEdgeStep(st, first, second) ==
  LET s1 == DMResolve(st, first)
      s2 == DMResolve(s1, second)
  IN IF DMCreateThrows(st, first) THEN st
     ELSE IF DMCreateThrows(s1, second) THEN s1
     ELSE [s2 EXCEPT !.g = DMLinkBoth(s2.g, DMNodeOf(st, first), DMNodeOf(s1, second), first, second)]

\* the history of addEdge calls with one more call for the pair
DMCounted(calls, pair) ==
  [p \in DOMAIN calls \cup {pair} |-> IF p = pair THEN (IF p \in DOMAIN calls THEN calls[p] + 1 ELSE 1) ELSE calls[p]]

DMAddEdge(first, second) ==
  /\ LET s3 == DMAddEdgeStep(DMState, first, second)
     IN /\ dmGraph' = s3.g
        /\ dmKeys' = s3.keys
        /\ dmSz' = s3.sz
  /\ dmRet' = IF DMAddEdgeThrows(DMState, first, second) THEN DMDuplicateError
              ELSE [op |-> "addEdge", kind |-> "return", value |-> JSUndefined]
  /\ dmEdgeCalls' = IF DMAddEdgeThrows(DMState, first, second) THEN dmEdgeCalls
                    ELSE DMCounted(dmEdgeCalls, {first, second})
  /\ UNCHANGED dmIdentifier
  /\ UNCHANGED outsideDM

\* the matrix after the two initialisation loops and the neighbour loop
DMDirect(g, ids) ==
  [i \in 1..Len(ids) |-> [j \in 1..Len(ids) |->
     IF ids[j] \in DOMAIN g[ids[i]].neighbors THEN g[ids[i]].neighbors[ids[j]] ELSE INF]]

\* line 107 for the loop indices (i, j, u):
\* distanceMatrix[i][j] = Math.min(distanceMatrix[i][j], distanceMatrix[i][u] + distanceMatrix[u][j])
DMRelaxCell(m, i, j, u) == [m EXCEPT ![i][j] = Min(m[i][j], m[i][u] + m[u][j])]

\* for (let u = 0; u < ids.length; ++u): the innermost loop, from index u on
RECURSIVE DMLoopU(_, _, _, _)
DMLoopU(m, i, j, u) ==
  IF u \in DOMAIN m THEN DMLoopU(DMRelaxCell(m, i, j, u), i, j, u + 1) ELSE m

\* for (let j = 0; j < ids.length; ++j): the middle loop, from index j on
RECURSIVE DMLoopJ(_, _, _)
DMLoopJ(m, i, j) ==
  IF j \in DOMAIN m THEN DMLoopJ(DMLoopU(m, i, j, 1), i, j + 1) ELSE m

\* for (let i = 0; i < ids.length; ++i): the outermost loop, from index i on
RECURSIVE DMLoopI(_, _)
DMLoopI(m, i) ==
  IF i \in DOMAIN m THEN DMLoopI(DMLoopJ(m, i, 1), i + 1) ELSE m

\* the three nested loops of lines 104-110
DMRelax(m) == DMLoopI(m, 1)

\* a changed DMSentinel: the INF cells are left as they are
DMSentinel_Kept(m) == m

\* if (field === INF) cur[idx] = -1
DMSentinel(m) == [i \in DOMAIN m |-> [j \in DOMAIN m[i] |-> IF m[i][j] = INF THEN -1 ELSE m[i][j]]]

\* some neighbour key is no key of the graph: compile throws
DMMissingId(g, ids) == \E i \in 1..Len(ids) : \E o \in DOMAIN g[ids[i]].neighbors : IndexOf(ids, o) = 0

DMCompileResult(g, ids) ==
  IF DMMissingId(g, ids) THEN DMIdNotFound
  ELSE [op |-> "compile", kind |-> "return",
        value |-> [nodes |-> ids,
                   distanceMatrix |-> DMSentinel(DMRelax(DMDirect(g, ids)))]]

\* distanceMatrix.identifier(value): sets the function, returns the builder
DMSetIdentifier(value) ==
  /\ dmIdentifier' = value
  /\ dmRet' = [op |-> "identifier", kind |-> "return", value |-> [type |-> "distanceMatrix"]]
  /\ UNCHANGED <<dmGraph, dmKeys, dmSz, dmEdgeCalls>>
  /\ UNCHANGED outsideDM

DMCompile ==
  /\ dmRet' = DMCompileResult(dmGraph, dmKeys)
  /\ UNCHANGED <<dmGraph, dmKeys, dmSz, dmEdgeCalls, dmIdentifier>>
  /\ UNCHANGED outsideDM

(***************************************************************************)
(* TreeBuilder, constructed as TreeBuilder(d => d.id)                      *)
(***************************************************************************)
TBDuplicateError == [op |-> "createNode", kind |-> "throw", value |-> "There is an existing node with the same Id!"]
TBHasParentError(name) == [op |-> "addChild", kind |-> "throw", value |-> <<" node", name, " has a parent!">>]

\* the identifier functions given to TreeBuilder(): d => d.id is what
\* parseOntology passes, d => d is the default (if (!identifier) identifier = d => d)
IdFieldFn == "d => d.id"
UriFieldFn == "d => d.uri"
TBIdentifierFns == {IdFieldFn, UriFieldFn, IdentityFn}

\* identifier(d), for the function in use; the value d => d returns is used
\* as a property key, which is String(d)
TBIdentifier(d) ==
  IF tbIdentifier = IdFieldFn THEN d.id
  ELSE IF tbIdentifier = UriFieldFn THEN d.uri
  ELSE d.str

\* tree.hasOwnProperty(nodeId); getNode(nodeId) is undefined exactly when it fails
TBHas(t, nodeId) == nodeId \in DOMAIN t

\* tb.size: Object.keys(tree).length
TBSize(keys) == Len(keys)

\* let nodeName = node.name ? node.name : node.id
TBNodeName(node) == IF node.name # NoName THEN node.name ELSE node.id

\* the object createNode stores under tree[nodeId]
TBNewNode(node) ==
  [children |-> << >>, parent |-> Undefined, data |-> node,
   id |-> TBIdentifier(node), name |-> TBNodeName(node)]

\* tree[nodeId] = {...} on an absent key
TBPut(t, nodeId, value) == [k \in DOMAIN t \cup {nodeId} |-> IF k = nodeId THEN value ELSE t[k]]

\* createNode on the registry st = [t, keys, sz] when the id is absent
TBCreated(st, node) ==
  [t |-> TBPut(st.t, TBIdentifier(node), TBNewNode(node)),
   keys |-> Append(st.keys, TBIdentifier(node)),
   sz |-> st.sz + 1]

\* getNode(id), then createNode(record) when it is undefined
TBResolve(st, node) == IF TBHas(st.t, TBIdentifier(node)) THEN st ELSE TBCreated(st, node)

\* a changed TBChildHasParent: addChild does not look at the child's parent
TBChildHasParent_Unchecked(st, child) == FALSE

\* childNode.parent !== undefined, for the node the child resolves to
TBChildHasParent(st, child) == st.t[TBIdentifier(child)].parent # Undefined

\* a changed TBAttach: the child is put in front of the parent's children
TBAttach_Unshifts(st, parentId, childId) ==
  [st EXCEPT !.t = [@ EXCEPT ![childId].parent = parentId,
                             ![parentId].children = <<childId>> \o @]]

\* childNode.parent = parentId; parentNode.children.push(tree[childId])
TBAttach(st, parentId, childId) ==
  [st EXCEPT !.t = [@ EXCEPT ![childId].parent = parentId,
                             ![parentId].children = Append(@, childId)]]

\* a changed TBAddChildStep: the parent is resolved before the child's parent
\* is tested
TBAddChildStep_ParentFirst(st, parent, child) ==
  LET parentId == TBIdentifier(parent)
      childId == TBIdentifier(child)
      s1 == TBResolve(TBResolve(st, child), parent)
  IN IF TBChildHasParent(s1, child)
     THEN [st |-> s1, threw |-> TRUE]
     ELSE [st |-> TBAttach(s1, parentId, childId), threw |-> FALSE]

\* addChild as a function of the registry: the registry it leaves and whether
\* it threw
TBAddChildStep(st, parent, child) ==
  LET parentId == TBIdentifier(parent)
      childId == TBIdentifier(child)
      s1 == TBResolve(st, child)
  IN IF TBChildHasParent(s1, child)
     THEN [st |-> s1, threw |-> TRUE]
     ELSE [st |-> TBAttach(TBResolve(s1, parent), parentId, childId), threw |-> FALSE]

TBState == [t |-> tbTree, keys |-> tbKeys, sz |-> tbSz]

\* a changed TBCreateNode: a registered id is overwritten by a new node
TBCreateNode_Overwrites(node) ==
  /\ tbTree' = TBPut(tbTree, TBIdentifier(node), TBNewNode(node))
  /\ tbKeys' = IF TBHas(tbTree, TBIdentifier(node)) THEN tbKeys ELSE Append(tbKeys, TBIdentifier(node))
  /\ tbSz' = tbSz + 1
  /\ tbRet' = [op |-> "createNode", kind |-> "return", value |-> [type |-> "node", id |-> TBIdentifier(node)]]
  /\ UNCHANGED <<tbIdentifier, tbAttached>>
  /\ UNCHANGED outsideTB

TBCreateNode(node) ==
  IF TBHas(tbTree, TBIdentifier(node))
  THEN /\ tbRet' = TBDuplicateError
       /\ UNCHANGED <<tbTree, tbKeys, tbSz, tbIdentifier, tbAttached>>
       /\ UNCHANGED outsideTB
  ELSE LET s1 == TBCreated(TBState, node)
       IN /\ tbTree' = s1.t
          /\ tbKeys' = s1.keys
          /\ tbSz' = s1.sz
          /\ tbRet' = [op |-> "createNode", kind |-> "return", value |-> [type |-> "node", id |-> TBIdentifier(node)]]
          /\ UNCHANGED <<tbIdentifier, tbAttached>>
          /\ UNCHANGED outsideTB

\* the history of returned addChild calls with one more call for the parent
TBLogged(log, parentId, childId) ==
  [p \in DOMAIN log \cup {parentId} |->
     IF p = parentId THEN Append(IF p \in DOMAIN log THEN log[p] ELSE << >>, childId) ELSE log[p]]

TBAddChild(parent, child) ==
  LET r == TBAddChildStep(TBState, parent, child)
  IN /\ tbTree' = r.st.t
     /\ tbKeys' = r.st.keys
     /\ tbSz' = r.st.sz
     /\ tbRet' = IF r.threw THEN TBHasParentError(r.st.t[TBIdentifier(child)].name)
                 ELSE [op |-> "addChild", kind |-> "return", value |-> JSUndefined]
     /\ tbAttached' = IF r.threw THEN tbAttached
                      ELSE TBLogged(tbAttached, TBIdentifier(parent), TBIdentifier(child))
     /\ UNCHANGED tbIdentifier
     /\ UNCHANGED outsideTB

\* cycleDetection(node, visitedSet): the node is given by its name and its
\* children; yields the value returned and the visited set it leaves
RECURSIVE cycleDetection(_, _, _, _), cycleDetectionChildren(_, _, _, _, _)
cycleDetection(t, name, children, visitedSet) ==
  IF name \in visitedSet THEN [cycle |-> TRUE, visitedSet |-> visitedSet]
  ELSE cycleDetectionChildren(t, children, 1, visitedSet \cup {name}, FALSE)

\* node.children.forEach(child => cycle |= cycleDetection(child, visitedSet))
cycleDetectionChildren(t, children, k, visitedSet, cycle) ==
  IF k > Len(children) THEN [cycle |-> cycle, visitedSet |-> visitedSet]
  ELSE LET r == cycleDetection(t, t[children[k]].name, t[children[k]].children, visitedSet)
       IN cycleDetectionChildren(t, children, k + 1, r.visitedSet, cycle \/ r.cycle)

\* Object.keys(tree).forEach: the nodes whose parent is undefined, in key order
TBRootChildren(t, keys) == SelectSeq(keys, LAMBDA k : t[k].parent = Undefined)

\* compile(): undefined when cycleDetection(root, {}) is true, else the root
\* object, whose children are references to the registry's own nodes
TBCompileResult(t, keys) ==
  LET rootChildren == TBRootChildren(t, keys)
  IN IF cycleDetection(t, "root", rootChildren, {}).cycle
     THEN [op |-> "compile", kind |-> "return", value |-> JSUndefined]
     ELSE [op |-> "compile", kind |-> "return",
           value |-> [type |-> "object", name |-> "root", children |-> rootChildren]]

TBCompile ==
  /\ tbRet' = TBCompileResult(tbTree, tbKeys)
  /\ UNCHANGED <<tbTree, tbKeys, tbSz, tbIdentifier, tbAttached>>
  /\ UNCHANGED outsideTB

(***************************************************************************)
(* DataPreprocessing.parseOntology (src/core/dataPreprocessing.js)         *)
(***************************************************************************)
\* A url is modelled by its first 30 characters and the rest: 30 is the length
\* of 'http://www.informea.org/terms/', which getTerm slices off.
TermsPrefix == "http://www.informea.org/terms/"
TopicPrefix == "http://www.informea.org/topic/"
Url(prefix, rest) == [prefix |-> prefix, rest |-> rest]

\* id.startsWith('http://www.informea.org/terms')
StartsWithTerms(url) == url.prefix = TermsPrefix

\* getTerm(url): url.slice('http://www.informea.org/terms/'.length)
getTerm(url) == url.rest

\* the term names of the dataset; those with the prefix xl_en are aliases
TermPool == <<"a", "xl_en_a", "b", "c", "xl_en_b", "d">>
TermNames == {TermPool[i] : i \in 1..NumTermNames}
\* name.startsWith('xl_en')
StartsWithXlEn(name) == name \in {"xl_en_a", "xl_en_b"}

\* term.hasOwnProperty('broader') is false: the value of an absent field
NoBroader == Url("<absent>", "<absent>")
\* the values of term['@about'] and of term['broader']['@resource']
AboutUrls == {Url(TermsPrefix, n) : n \in TermNames} \cup {Url(TopicPrefix, TermPool[1])}
BroaderUrls == {NoBroader} \cup {Url(TermsPrefix, n) : n \in TermNames \cup {""}}
\* the term records, and the datasets: data['Description']
TermRecords == [about : AboutUrls, broader : BroaderUrls]
OntologyInputs == UNION {[1..n -> TermRecords] : n \in 0..MaxTerms}

PONameError(id) == [op |-> "parseOntology", kind |-> "throw", value |-> <<"name start with no http", id>>]
POParentError == [op |-> "parseOntology", kind |-> "throw", value |-> "Parent name is undefined!"]
PORunning == [op |-> "parseOntology", kind |-> "running", value |-> JSUndefined]
POIdle == [op |-> "parseOntology", kind |-> "idle", value |-> JSUndefined]
\* return {tree, distanceMatrix}: the two builders
POReturned == [op |-> "parseOntology", kind |-> "return", value |-> [tree |-> "tree", distanceMatrix |-> "distanceMatrix"]]

\* the records parseOntology hands to tree.addChild: {id: ..., uri: ...}
PONode(id, uri) == [id |-> id, name |-> NoName, uri |-> uri]

\* the state of parseOntology at its first statement: the two new builders,
\* names = {}
POStart ==
  [tree |-> [t |-> << >>, keys |-> << >>, sz |-> 0],
   attached |-> << >>,
   tbRet |-> [op |-> "TreeBuilder", kind |-> "return", value |-> JSUndefined],
   dm |-> [g |-> << >>, keys |-> << >>, sz |-> 0],
   edgeCalls |-> << >>,
   dmRet |-> [op |-> "DistanceMatrix", kind |-> "return", value |-> JSUndefined],
   names |-> {},
   childCalls |-> << >>,
   out |-> PORunning]

\* lines 79-85, for an accepted term: the parent is read, tree.addChild and
\* distanceMatrix.addEdge are called
POAccept(st, term, name) ==
  LET parentId == term.broader
      parent == getTerm(parentId)
      r == TBAddChildStep(st.tree, PONode(parent, parentId), PONode(name, term.about))
  IN IF parent = "" THEN [st EXCEPT !.out = POParentError]
     ELSE IF r.threw
     THEN [st EXCEPT !.tree = r.st,
                     !.childCalls = Append(@, name),
                     !.tbRet = TBHasParentError(r.st.t[name].name),
                     !.out = TBHasParentError(r.st.t[name].name)]
     ELSE IF DMAddEdgeThrows(st.dm, parent, name)
     THEN [st EXCEPT !.tree = r.st,
                     !.attached = TBLogged(@, parent, name),
                     !.childCalls = Append(@, name),
                     !.tbRet = [op |-> "addChild", kind |-> "return", value |-> JSUndefined],
                     !.dm = DMAddEdgeStep(@, parent, name),
                     !.dmRet = DMDuplicateError,
                     !.out = DMDuplicateError]
     ELSE [st EXCEPT !.tree = r.st,
                     !.attached = TBLogged(@, parent, name),
                     !.childCalls = Append(@, name),
                     !.tbRet = [op |-> "addChild", kind |-> "return", value |-> JSUndefined],
                     !.dm = DMAddEdgeStep(@, parent, name),
                     !.edgeCalls = DMCounted(@, {parent, name}),
                     !.dmRet = [op |-> "addEdge", kind |-> "return", value |-> JSUndefined]]

\* a changed POTerm: a term whose name was accepted before is not skipped
POTerm_NoSkip(st, term) ==
  LET id == term.about
      name == getTerm(id)
  IN IF ~ StartsWithTerms(id) THEN [st EXCEPT !.out = PONameError(id)]
     ELSE IF ~ StartsWithXlEn(name) /\ term.broader # NoBroader
     THEN POAccept([st EXCEPT !.names = @ \cup {name}], term, name)
     ELSE st

\* the callback of data['Description'].forEach, for one term
POTerm(st, term) ==
  LET id == term.about
      name == getTerm(id)
  IN IF ~ StartsWithTerms(id) THEN [st EXCEPT !.out = PONameError(id)]
     ELSE IF name \in st.names THEN st
     ELSE IF ~ StartsWithXlEn(name) /\ term.broader # NoBroader /\ name \notin st.names
     THEN POAccept([st EXCEPT !.names = @ \cup {name}], term, name)
     ELSE st

\* data['Description'].forEach(...), from the k-th term on; a throw ends it
RECURSIVE POForEach(_, _, _)
POForEach(st, data, k) ==
  IF k > Len(data) \/ st.out # PORunning THEN st
  ELSE POForEach(POTerm(st, data[k]), data, k + 1)

\* parseOntology(data), up to its return or throw
POResult(data) ==
  LET st == POForEach(POStart, data, 1)
  IN IF st.out # PORunning THEN st ELSE [st EXCEPT !.out = POReturned]

ParseOntology ==
  /\ poRet = POIdle
  /\ \E st \in {POResult(ontology)} :
        /\ tbTree' = st.tree.t
        /\ tbKeys' = st.tree.keys
        /\ tbSz' = st.tree.sz
        /\ tbRet' = st.tbRet
        /\ tbAttached' = st.attached
        /\ dmGraph' = st.dm.g
        /\ dmKeys' = st.dm.keys
        /\ dmSz' = st.dm.sz
        /\ dmRet' = st.dmRet
        /\ dmEdgeCalls' = st.edgeCalls
        /\ names' = st.names
        /\ childCalls' = st.childCalls
        /\ poRet' = st.out
  /\ UNCHANGED <<ontology, tbIdentifier, dmIdentifier>>
  /\ UNCHANGED <<svVars, d3Vars>>

(***************************************************************************)
(* DataPreprocessing: parseDefintions, processData, loadData, constructor, *)
(* and the routes of src/routes/index.js.                                  *)
(* The module is loaded once (module.exports = new DataPreprocessing()).   *)
(* The constructor runs loadData up to its await; what follows the await   *)
(* runs as a microtask when the start-up script has ended, before the      *)
(* server handles any request.                                             *)
(***************************************************************************)
\* the term names in the files the server loads
LoadedNames == {"a", "c-d"}
LoadedAbout == {Url(TermsPrefix, n) : n \in LoadedNames} \cup {Url(TopicPrefix, "a")}
LoadedBroader == {NoBroader} \cup {Url(TermsPrefix, n) : n \in LoadedNames \cup {""}}
LoadedTerms == [about : LoadedAbout, broader : LoadedBroader]
LoadedOntologies == UNION {[1..n -> LoadedTerms] : n \in 0..MaxLoadedTerms}

\* the rows of the definitions file: the Term column, and the non-empty
\* values of the Topic #i, Synonym #i and Definition #i columns, in column order
DefinitionRows ==
  [Term : {"A", "c (d)"}, topics : {<<"topic">>},
   synonyms : {<< >>, <<"a", "s-t">>}, definitions : {<<"text">>}]
DefinitionInputs == UNION {[1..n -> DefinitionRows] : n \in 0..MaxDefinitionRows}

\* processName: removes ( ) and ', makes two spaces one, spaces dashes, and
\* lowers the case
processName(name) ==
  CASE name = "A" -> "a"
    [] name = "c (d)" -> "c-d"
    [] OTHER -> name

\* self.replaceAll(cur, '-', ' ')
DashesToSpaces(str) ==
  CASE str = "c-d" -> "c d"
    [] str = "s-t" -> "s t"
    [] OTHER -> str

\* the loop over the Synonym #i columns of one row, from the k-th value on:
\* the synonyms pushed, and `unique`
RECURSIVE PDSynonyms(_, _, _, _, _)
PDSynonyms(syns, k, name, alt, unique) ==
  IF k > Len(syns) THEN [alternative_names |-> alt, unique |-> unique]
  ELSE IF syns[k] = name \/ syns[k] \in unique THEN PDSynonyms(syns, k + 1, name, alt, unique)
  ELSE PDSynonyms(syns, k + 1, name, Append(alt, syns[k]), unique \cup {syns[k]})

\* the callback of definitions.forEach, for one row
PDRow(pd, row) ==
  LET name == processName(row.Term)
  IN IF ~ TBHas(pd.t, name) THEN pd
     ELSE LET syn == PDSynonyms(row.synonyms, 1, name, << >>, pd.unique)
              data == pd.t[name].data
          IN [t |-> [pd.t EXCEPT ![name].data =
                       [id |-> data.id, name |-> data.name, uri |-> data.uri,
                        topics |-> row.topics,
                        alternative_names |-> syn.alternative_names,
                        definitions |-> row.definitions,
                        Term |-> name]],
              unique |-> syn.unique]

RECURSIVE PDForEach(_, _, _)
PDForEach(pd, defs, k) ==
  IF k > Len(defs) THEN pd ELSE PDForEach(PDRow(pd, defs[k]), defs, k + 1)

\* parseDefintions(tree, definitions): the tree it leaves
parseDefintions(t, defs) == PDForEach([t |-> t, unique |-> {}], defs, 1).t

\* node.data.alternative_names.map(...) on a node without that field
PDTypeError == [op |-> "processData", kind |-> "throw", value |-> "TypeError: Cannot read property 'map' of undefined"]

\* the object processData stores in disData.nodes[idx]
PDMetadata(t, cur) ==
  [uri |-> t[cur].data.uri,
   name |-> DashesToSpaces(cur),
   alternative_names |-> [i \in 1..Len(t[cur].data.alternative_names) |->
                            DashesToSpaces(t[cur].data.alternative_names[i])],
   definitions |-> t[cur].data.definitions,
   topics |-> t[cur].data.topics]

\* processData(ontology, definitions) from line 178 on, po being what
\* parseOntology left: the builders it leaves, what the last calls on them
\* returned, how often each compile() ran, and what it returns or throws
PDAfterOntology(po, defs) ==
  LET t2 == parseDefintions(po.tree.t, defs)
      treeRet == TBCompileResult(t2, po.tree.keys)
      treeData == [ontologyTree |-> treeRet.value, ontologyList |-> po.tree.keys]
      disRet == DMCompileResult(po.dm.g, po.dm.keys)
      ids == po.dm.keys
  IN IF po.out # POReturned
     THEN [po |-> po, t |-> po.tree.t, tbRet |-> po.tbRet, dmRet |-> po.dmRet,
           compiles |-> [tree |-> 0, distanceMatrix |-> 0], out |-> po.out]
     ELSE IF disRet.kind = "throw"
     THEN [po |-> po, t |-> t2, tbRet |-> treeRet, dmRet |-> disRet,
           compiles |-> [tree |-> 1, distanceMatrix |-> 1], out |-> disRet]
     ELSE IF \E i \in 1..Len(ids) : "alternative_names" \notin DOMAIN t2[ids[i]].data
     THEN [po |-> po, t |-> t2, tbRet |-> treeRet, dmRet |-> disRet,
           compiles |-> [tree |-> 1, distanceMatrix |-> 1], out |-> PDTypeError]
     ELSE [po |-> po, t |-> t2, tbRet |-> treeRet, dmRet |-> disRet,
           compiles |-> [tree |-> 1, distanceMatrix |-> 1],
           out |-> [op |-> "processData", kind |-> "return",
                    value |-> [tree |-> treeData,
                               distanceMatrix |->
                                 [nodes |-> [i \in 1..Len(ids) |-> PDMetadata(t2, ids[i])],
                                  distanceMatrix |-> disRet.value.distanceMatrix]]]]

\* processData(ontology, definitions): parseOntology, then the rest
ProcessData(ont, defs) ==
  CHOOSE r \in {PDAfterOntology(po, defs) : po \in {POResult(ont)}} : TRUE

\* self.tree = {}; self.distanceMatrix = {}
JSEmptyObject == [type |-> "object"]
NoResponse == [route |-> "<none>", body |-> JSUndefined]

\* a changed LoadCallback: the callback stores the tree and not the matrix
LoadCallback_TreeOnly ==
  /\ pc = "awaiting"
  /\ \E r \in {ProcessData(ontology, definitions)} :
        /\ tbTree' = r.t
        /\ tbKeys' = r.po.tree.keys
        /\ tbSz' = r.po.tree.sz
        /\ tbRet' = r.tbRet
        /\ tbAttached' = r.po.attached
        /\ dmGraph' = r.po.dm.g
        /\ dmKeys' = r.po.dm.keys
        /\ dmSz' = r.po.dm.sz
        /\ dmRet' = r.dmRet
        /\ dmEdgeCalls' = r.po.edgeCalls
        /\ names' = r.po.names
        /\ childCalls' = r.po.childCalls
        /\ poRet' = r.po.out
        /\ compileCalls' = [tree |-> compileCalls.tree + r.compiles.tree,
                            distanceMatrix |-> compileCalls.distanceMatrix + r.compiles.distanceMatrix]
        /\ IF r.out.kind = "return"
           THEN /\ selfTree' = r.out.value.tree
                /\ selfDistanceMatrix' = selfDistanceMatrix
                /\ pc' = "loaded"
           ELSE /\ UNCHANGED <<selfTree, selfDistanceMatrix>>
                /\ pc' = "rejected"
  /\ UNCHANGED <<ontology, definitions, response, tbIdentifier, dmIdentifier, d3Vars>>

\* what follows the await in loadData: callback(), which runs processData and
\* stores its two results; a throw of processData rejects the promise of
\* loadData and stores nothing
LoadCallback ==
  /\ pc = "awaiting"
  /\ \E r \in {ProcessData(ontology, definitions)} :
        /\ tbTree' = r.t
        /\ tbKeys' = r.po.tree.keys
        /\ tbSz' = r.po.tree.sz
        /\ tbRet' = r.tbRet
        /\ tbAttached' = r.po.attached
        /\ dmGraph' = r.po.dm.g
        /\ dmKeys' = r.po.dm.keys
        /\ dmSz' = r.po.dm.sz
        /\ dmRet' = r.dmRet
        /\ dmEdgeCalls' = r.po.edgeCalls
        /\ names' = r.po.names
        /\ childCalls' = r.po.childCalls
        /\ poRet' = r.po.out
        /\ compileCalls' = [tree |-> compileCalls.tree + r.compiles.tree,
                            distanceMatrix |-> compileCalls.distanceMatrix + r.compiles.distanceMatrix]
        /\ IF r.out.kind = "return"
           THEN /\ selfTree' = r.out.value.tree
                /\ selfDistanceMatrix' = r.out.value.distanceMatrix
                /\ pc' = "loaded"
           ELSE /\ UNCHANGED <<selfTree, selfDistanceMatrix>>
                /\ pc' = "rejected"
  /\ UNCHANGED <<ontology, definitions, response, tbIdentifier, dmIdentifier, d3Vars>>

\* the event loop takes requests once the start-up script and its microtasks
\* have run
Serving == pc \in {"loaded", "rejected"}

\* router.get('/'): res.render('index', ...)
GetIndex ==
  /\ Serving
  /\ response' = [route |-> "/", body |-> [type |-> "view", view |-> "index", title |-> "Ontology Tree Visualizer"]]
  /\ UNCHANGED <<definitions, selfTree, selfDistanceMatrix, pc, compileCalls>>
  /\ UNCHANGED <<dmVars, tbVars, poVars, d3Vars>>

\* router.get('/get-tree'): res.json(dataProcessing.getTree())
GetTree ==
  /\ Serving
  /\ response' = [route |-> "/get-tree", body |-> selfTree]
  /\ UNCHANGED <<definitions, selfTree, selfDistanceMatrix, pc, compileCalls>>
  /\ UNCHANGED <<dmVars, tbVars, poVars, d3Vars>>

\* a changed GetDistanceMatrix: the handler compiles the matrix for the request
GetDistanceMatrix_Recompiles ==
  /\ Serving
  /\ dmRet' = DMCompileResult(dmGraph, dmKeys)
  /\ compileCalls' = [compileCalls EXCEPT !.distanceMatrix = @ + 1]
  /\ response' = [route |-> "/get-distance-matrix", body |-> selfDistanceMatrix]
  /\ UNCHANGED <<definitions, selfTree, selfDistanceMatrix, pc>>
  /\ UNCHANGED <<dmGraph, dmKeys, dmSz, dmEdgeCalls, dmIdentifier, tbVars, poVars, d3Vars>>

\* router.get('/get-distance-matrix'): res.json(dataProcessing.getDistanceMatrix())
GetDistanceMatrix ==
  /\ Serving
  /\ response' = [route |-> "/get-distance-matrix", body |-> selfDistanceMatrix]
  /\ UNCHANGED <<definitions, selfTree, selfDistanceMatrix, pc, compileCalls>>
  /\ UNCHANGED <<dmVars, tbVars, poVars, d3Vars>>

\* the rejection of loadData's promise is handled nowhere: a runtime that
\* ends the process on an unhandled rejection ends it here, others go on
ProcessExit ==
  /\ pc = "rejected"
  /\ pc' = "exited"
  /\ UNCHANGED <<definitions, selfTree, selfDistanceMatrix, response, compileCalls>>
  /\ UNCHANGED <<dmVars, tbVars, poVars, d3Vars>>

(***************************************************************************)
(* d3Tree (src/public/javascripts/d3Tree.js)                               *)
(***************************************************************************)
\* The nodes of d3.hierarchy(data) are numbered in the order of the data, the
\* root is 1 and the parent of every other node has a smaller number.
HNodes == 1..NumHierarchyNodes
HRoot == 1
\* the data the visualization is given: every node but the root has a parent
Hierarchies == {h \in [HNodes \ {HRoot} -> HNodes] : \A n \in HNodes \ {HRoot} : h[n] < n}
\* d.data.children, in the order of the data
HDataChildren(h, d) == SelectSeq([n \in HNodes |-> n], LAMBDA n : n # HRoot /\ h[n] = d)
\* the nodes below d in the data, d itself included
RECURSIVE HBelow(_, _)
HBelow(h, d) == {d} \cup UNION {HBelow(h, c) : c \in SeqToSet(HDataChildren(h, d))}

\* the values of d.children and d._children
JSNull == [type |-> "null", items |-> << >>]
JSAbsent == [type |-> "undefined", items |-> << >>]
JSArray(items) == [type |-> "array", items |-> items]
\* if (v): an array is truthy, null and undefined are not
Truthy(v) == v.type = "array"

\* d3.hierarchy(data, d => d.children): a node gets a children array when its
\* data has children, and no children property otherwise; no node has a
\* _children property yet
D3Hierarchy(h) ==
  [c |-> [d \in HNodes |-> IF HDataChildren(h, d) = << >> THEN JSAbsent
                           ELSE JSArray(HDataChildren(h, d))],
   u |-> [d \in HNodes |-> JSAbsent]]

\* collapse(d), and ds.forEach(collapse) from the k-th node on
RECURSIVE collapse(_, _), collapseEach(_, _, _)
collapse(st, d) ==
  IF Truthy(st.c[d])
  THEN LET s1 == [st EXCEPT !.u[d] = st.c[d]]
           s2 == collapseEach(s1, s1.u[d].items, 1)
       IN [s2 EXCEPT !.c[d] = JSNull]
  ELSE st
collapseEach(st, ds, k) ==
  IF k > Len(ds) THEN st ELSE collapseEach(collapse(st, ds[k]), ds, k + 1)

\* a changed dblclickHidden: the nodes held in d._children are not visited
dblclickHidden_Skipped(st, d) == << >>

\* if (d._children) d._children.forEach(...): the nodes visited
dblclickHidden(st, d) == IF Truthy(st.u[d]) THEN st.u[d].items ELSE << >>

\* if (d.children) d.children.forEach(...): the nodes visited
dblclickShown(st, d) == IF Truthy(st.c[d]) THEN st.c[d].items ELSE << >>

\* dblclick(d, state), and ds.forEach(child => dblclick(child, state)) from the
\* k-th node on
RECURSIVE dblclick(_, _, _), dblclickEach(_, _, _, _)
dblclick(st, d, state) ==
  LET s1 == IF Truthy(st.c[d]) /\ ~ state
            THEN [st EXCEPT !.u[d] = st.c[d], !.c[d] = JSNull]
            ELSE IF Truthy(st.u[d]) /\ state
            THEN [st EXCEPT !.c[d] = st.u[d], !.u[d] = JSNull]
            ELSE st
      s2 == dblclickEach(s1, dblclickHidden(s1, d), 1, state)
  IN dblclickEach(s2, dblclickShown(s2, d), 1, state)
dblclickEach(st, ds, k, state) ==
  IF k > Len(ds) THEN st ELSE dblclickEach(dblclick(st, ds[k], state), ds, k + 1, state)

\* a changed D3Toggle: a collapse keeps d.children
D3Toggle_KeepsShown(st, d) ==
  IF Truthy(st.c[d])
  THEN [st EXCEPT !.u[d] = st.c[d]]
  ELSE [st EXCEPT !.c[d] = st.u[d], !.u[d] = JSNull]

\* the single-click action of the setTimeout callback: the node's own children
\* move between d.children and d._children
D3Toggle(st, d) ==
  IF Truthy(st.c[d])
  THEN [st EXCEPT !.u[d] = st.c[d], !.c[d] = JSNull]
  ELSE [st EXCEPT !.c[d] = st.u[d], !.u[d] = JSNull]

\* treeMap(root).descendants(): the nodes reached from the root through
\* d.children
RECURSIVE D3Descendants(_, _)
D3Descendants(c, d) ==
  {d} \cup (IF Truthy(c[d]) THEN UNION {D3Descendants(c, k) : k \in SeqToSet(c[d].items)} ELSE {})

\* chart.update(source): the data join gives every descendant a g.node
\* element with the click handler; the elements of the other nodes stay until
\* their exit transition ends
D3Updated(c) == rendered \cup D3Descendants(c, HRoot)

NoTimer == 0
D3State == [c |-> dChildren, u |-> d_children]
\* what a handler found: whether d.children was set, and which nodes below d
\* had their d.children set
D3Was(d) == IF Truthy(dChildren[d]) THEN "expanded" ELSE "collapsed"
D3Open(d) == {n \in HBelow(hierarchy, d) \ {d} : Truthy(dChildren[n])}
D3Event(op, d) == [op |-> op, node |-> d, was |-> D3Was(d), open |-> D3Open(d)]

\* a changed D3Click: the second click does not clear the timer of the first
D3Click_KeepsTimer(d) ==
  /\ d \in rendered
  /\ IF clicks + 1 = 1
     THEN /\ clicks' = 1
          /\ timer' = d
          /\ d3Ret' = D3Event("click", d)
          /\ UNCHANGED <<dChildren, d_children, rendered>>
     ELSE LET s1 == dblclick(D3State, d, ~ Truthy(dChildren[d]))
          IN /\ clicks' = 0
             /\ timer' = timer
             /\ dChildren' = s1.c
             /\ d_children' = s1.u
             /\ rendered' = D3Updated(s1.c)
             /\ d3Ret' = D3Event("dblclick", d)
  /\ UNCHANGED hierarchy
  /\ UNCHANGED outsideD3

\* click(d), the handler of the click event of a rendered node: the first
\* click starts the timer, a click while the timer is pending clears it and
\* runs dblclick
D3Click(d) ==
  /\ d \in rendered
  /\ IF clicks + 1 = 1
     THEN /\ clicks' = 1
          /\ timer' = d
          /\ d3Ret' = D3Event("click", d)
          /\ UNCHANGED <<dChildren, d_children, rendered>>
     ELSE LET s1 == dblclick(D3State, d, ~ Truthy(dChildren[d]))
          IN /\ clicks' = 0
             /\ timer' = NoTimer
             /\ dChildren' = s1.c
             /\ d_children' = s1.u
             /\ rendered' = D3Updated(s1.c)
             /\ d3Ret' = D3Event("dblclick", d)
  /\ UNCHANGED hierarchy
  /\ UNCHANGED outsideD3

\* the callback given to setTimeout, 400 ms after the first click
D3Timeout ==
  /\ timer # NoTimer
  /\ LET s1 == D3Toggle(D3State, timer)
     IN /\ clicks' = 0
        /\ timer' = NoTimer
        /\ dChildren' = s1.c
        /\ d_children' = s1.u
        /\ rendered' = D3Updated(s1.c)
        /\ d3Ret' = D3Event("timeout", timer)
  /\ UNCHANGED hierarchy
  /\ UNCHANGED outsideD3

\* the exit transition of chart.update ends: nodeExit ... .remove() takes the
\* elements of the nodes that are no descendants away
D3ExitEnd ==
  /\ rendered # D3Descendants(dChildren, HRoot)
  /\ rendered' = D3Descendants(dChildren, HRoot)
  /\ d3Ret' = D3Event("exit", HRoot)
  /\ UNCHANGED <<hierarchy, dChildren, d_children, clicks, timer>>
  /\ UNCHANGED outsideD3

\* chart(selection) has run on the data h: root = d3.hierarchy(...),
\* root.children.forEach(collapse), chart.update(root)
D3Chart(h) ==
  LET s0 == D3Hierarchy(h)
      s1 == collapseEach(s0, s0.c[HRoot].items, 1)
  IN /\ hierarchy = h
     /\ dChildren = s1.c
     /\ d_children = s1.u
     /\ clicks = 0
     /\ timer = NoTimer
     /\ rendered = D3Descendants(s1.c, HRoot)
     /\ d3Ret = [op |-> "chart", node |-> HRoot, was |-> "expanded", open |-> {}]

\* no visualization: the page is not open
D3NoChart ==
  /\ hierarchy = << >>
  /\ dChildren = << >>
  /\ d_children = << >>
  /\ clicks = 0
  /\ timer = NoTimer
  /\ rendered = {}
  /\ d3Ret = [op |-> "none", node |-> HRoot, was |-> "collapsed", open |-> {}]

InitGraph ==
  /\ dmGraph = << >>
  /\ dmKeys = << >>
  /\ dmSz = 0
  /\ dmRet = [op |-> "DistanceMatrix", kind |-> "return", value |-> JSUndefined]
  /\ dmEdgeCalls = << >>
  /\ dmIdentifier = IdentityFn

\* let tree = {}; let sz = 0
TBFresh ==
  /\ tbTree = << >>
  /\ tbKeys = << >>
  /\ tbSz = 0
  /\ tbRet = [op |-> "TreeBuilder", kind |-> "return", value |-> JSUndefined]
  /\ tbAttached = << >>

\* TreeBuilder(d => d.id)
InitTree == TBFresh /\ tbIdentifier = IdFieldFn

\* TreeBuilder(identifier), for any of the identifier functions
InitTreeIdentifier == TBFresh /\ tbIdentifier \in TBIdentifierFns

\* parseOntology has not been called
POFresh ==
  /\ names = {}
  /\ childCalls = << >>
  /\ poRet = POIdle

\* the constructor has run: self.tree = {}, self.distanceMatrix = {}
SVFresh ==
  /\ selfTree = JSEmptyObject
  /\ selfDistanceMatrix = JSEmptyObject
  /\ response = NoResponse
  /\ compileCalls = [tree |-> 0, distanceMatrix |-> 0]

\* no dataset and no server process: the builders are used directly
InitNoData ==
  /\ POFresh /\ ontology = << >>
  /\ SVFresh /\ definitions = << >> /\ pc = "no process"
  /\ D3NoChart

Init == InitGraph /\ InitTree /\ InitNoData

\* a TreeBuilder made with any of the identifier functions, used directly
InitAnyIdentifier == InitGraph /\ InitTreeIdentifier /\ InitNoData

\* parseOntology is about to be called on a dataset
InitOntology ==
  /\ InitGraph /\ InitTree /\ POFresh /\ ontology \in OntologyInputs
  /\ SVFresh /\ definitions = << >> /\ pc = "no process"
  /\ D3NoChart

\* the server process when its start-up script has ended: the two files are
\* read, loadData is at its await
InitServer ==
  /\ InitGraph /\ InitTree /\ POFresh /\ SVFresh
  /\ ontology \in LoadedOntologies
  /\ definitions \in DefinitionInputs
  /\ pc = "awaiting"
  /\ D3NoChart

\* the bound on the addEdge calls of a run
DMEdgeBudget == DMTotalWeight(dmGraph) < 2 * MaxEdgeCalls

\* a child id that has not been the child of an addChild call yet
TBFreshChild(child) == ~ (TBHas(tbTree, TBIdentifier(child)) /\ TBChildHasParent(TBState, child))

NextGraph ==
  \/ \E node \in GraphIds : DMCreateNode(node)
  \/ DMEdgeBudget /\ \E first, second \in GraphIds : DMAddEdge(first, second)
  \/ DMCompile

\* the caller sets the identifier function on the new builder, then
\* registers raw values
NextGraphIdentifier ==
  \/ dmKeys = << >> /\ \E value \in IdentifierFns : DMSetIdentifier(value)
  \/ \E node \in RawIds : DMCreateNode(node)
  \/ DMEdgeBudget /\ \E first, second \in RawIds : DMAddEdge(first, second)

NextGraphWide ==
  \/ \E node \in WideIds : DMCreateNode(node)
  \/ DMEdgeBudget /\ \E first, second \in WideIds : DMAddEdge(first, second)
  \/ DMCompile

NextTree ==
  \/ \E node \in PlainRecords : TBCreateNode(node)
  \/ \E parent, child \in PlainRecords : TBAddChild(parent, child)
  \/ TBCompile

\* the number of addChild calls that have returned
RECURSIVE TBAttachedCount(_, _)
TBAttachedCount(log, ps) ==
  IF ps = {} THEN 0
  ELSE LET p == CHOOSE q \in ps : TRUE
       IN Len(log[p]) + TBAttachedCount(log, ps \ {p})
\* the builder has been given fewer than MaxAttachCalls children so far
TBAttachBudget == TBAttachedCount(tbAttached, DOMAIN tbAttached) < MaxAttachCalls

\* a builder filled through addChild alone, as parseOntology fills it, with
\* records none of which is named like compile()'s root
NextTreeTerms ==
  \/ TBAttachBudget /\ \E parent, child \in TermIdRecords : TBAddChild(parent, child)
  \/ TBCompile

NextTreeRecords ==
  \/ \E node \in RichRecords : TBCreateNode(node)
  \/ \E parent, child \in RichRecords : TBAddChild(parent, child)
  \/ TBCompile

\* sequences of addChild calls in which no id is the child more than once
NextFreshChildren ==
  \/ \E parent, child \in PlainRecords : TBFreshChild(child) /\ TBAddChild(parent, child)
  \/ TBCompile

\* The two builders are separate closures that share no state; a run of
\* NextRegistries builds one of the two registries, by the calls that register
\* nodes.
\* the values a caller hands to the builder: objects that have the field the
\* identifier function reads, and also strings when it is the default d => d
TBOffered == IF tbIdentifier = IdentityFn THEN AnyValues ELSE ObjectValues

\* a TreeBuilder made with any identifier function
NextTreeIdentifier ==
  \/ \E node \in TBOffered : TBCreateNode(node)
  \/ \E parent, child \in TBOffered : TBAddChild(parent, child)
  \/ TBCompile

NextRegistries ==
  \/ InitTree /\ \E node \in GraphIds : DMCreateNode(node)
  \/ InitTree /\ DMEdgeBudget /\ \E first, second \in GraphIds : DMAddEdge(first, second)
  \/ InitGraph /\ \E node \in RichRecords : TBCreateNode(node)
  \/ InitGraph /\ \E parent, child \in RichRecords : TBAddChild(parent, child)

NextOntology == ParseOntology

NextServer ==
  \/ LoadCallback
  \/ GetIndex
  \/ GetTree
  \/ GetDistanceMatrix
  \/ ProcessExit

SpecServer == InitServer /\ [][NextServer]_vars

SpecOntology == InitOntology /\ [][NextOntology]_vars
SpecGraph == Init /\ [][NextGraph]_vars
SpecGraphWide == Init /\ [][NextGraphWide]_vars
SpecGraphIdentifier == Init /\ [][NextGraphIdentifier]_vars
SpecTree == Init /\ [][NextTree]_vars
SpecTreeRecords == Init /\ [][NextTreeRecords]_vars
SpecTreeTerms == Init /\ [][NextTreeTerms]_vars

\* the page with the tree visualization of some data, and its user
InitChart ==
  /\ InitGraph /\ InitTree /\ POFresh /\ ontology = << >>
  /\ SVFresh /\ definitions = << >> /\ pc = "no process"
  /\ \E h \in Hierarchies : D3Chart(h)
NextChart ==
  \/ \E d \in HNodes : D3Click(d)
  \/ D3Timeout
  \/ D3ExitEnd
SpecChart == InitChart /\ [][NextChart]_vars
SpecTreeIdentifier == InitAnyIdentifier /\ [][NextTreeIdentifier]_vars
SpecFreshChildren == Init /\ [][NextFreshChildren]_vars
SpecRegistries == Init /\ [][NextRegistries]_vars

(***************************************************************************)
(* Properties of DistanceMatrix.compile()                                  *)
(***************************************************************************)
\* the last call was compile() and it returned
DMCompiled == dmRet.op = "compile" /\ dmRet.kind = "return"
\* the compiled matrix, and its entry for a pair of node ids
DMMatrix == dmRet.value.distanceMatrix
DMDistance(a, b) == DMMatrix[IndexOf(dmRet.value.nodes, a)][IndexOf(dmRet.value.nodes, b)]
\* the node has no neighbours
DMIsolated(id) == DOMAIN dmGraph[id].neighbors = {}

\* the least total weight of a walk of at most k edges from a to b over the
\* neighbour weights, -1 when there is none
RECURSIVE RefShortest(_, _, _, _)
RefShortest(g, a, b, k) ==
  IF a = b THEN 0
  ELSE IF k = 0 THEN -1
  ELSE LET via == {c \in DOMAIN g[b].neighbors : c # b /\ RefShortest(g, a, c, k - 1) # -1}
           cands == {RefShortest(g, a, c, k - 1) + g[b].neighbors[c] : c \in via}
       IN IF cands = {} THEN -1 ELSE CHOOSE d \in cands : \A e \in cands : d <= e

\* C1: for every graph built by createNode and addEdge calls, every
\* off-diagonal entry of the compiled matrix is the minimum total weight of a
\* path between the two nodes, and -1 exactly when there is no path.
C1_ShortestPaths ==
  DMCompiled =>
    \A a, b \in DOMAIN dmGraph :
      a # b => DMDistance(a, b) = RefShortest(dmGraph, a, b, Len(dmKeys) - 1)

\* C2: every diagonal entry of the compiled matrix is 0, for nodes with edges
\* and for nodes without.
C2_ZeroDiagonal ==
  DMCompiled => \A i \in DOMAIN DMMatrix : DMMatrix[i][i] = 0

\* C3: the compiled matrix is symmetric, whatever the order in which the
\* nodes were created.
C3_Symmetric ==
  DMCompiled => \A i, j \in DOMAIN DMMatrix : DMMatrix[i][j] = DMMatrix[j][i]

\* a compiled graph of three nodes in which the first created node is not an
\* endpoint of the first edge and some pair is joined only through a third node
C3_Witness ==
  /\ DMCompiled
  /\ Len(dmKeys) = 3
  /\ \E i, j \in DOMAIN DMMatrix :
       /\ i < j
       /\ dmKeys[j] \notin DOMAIN dmGraph[dmKeys[i]].neighbors
       /\ DMMatrix[i][j] = 2
       /\ DMMatrix[j][i] = 2

\* the registry before any call
DMEmpty == [g |-> << >>, keys |-> << >>, sz |-> 0]
\* the registry after addEdge(a,b), addEdge(b,c) on an empty graph, and after
\* one more addEdge(a,b)
C9_Once(a, b, c) == DMAddEdgeStep(DMAddEdgeStep(DMEmpty, a, b), b, c)
C9_Twice(a, b, c) == DMAddEdgeStep(C9_Once(a, b, c), a, b)

\* C9: with (A,B) and (B,C) each inserted once into an empty graph, compile()
\* gives distance(A,B) = 1 and distance(A,C) = 2; with (A,B) inserted once
\* more it gives distance(A,B) = 2.
C9_Multiplicity ==
  \A a, b, c \in GraphIds :
    (DMCompiled /\ a # b /\ b # c /\ a # c /\ dmKeys = <<a, b, c>>) =>
      /\ DMState = C9_Once(a, b, c) => DMDistance(a, b) = 1 /\ DMDistance(a, c) = 2
      /\ DMState = C9_Twice(a, b, c) => DMDistance(a, b) = 2

\* compile() has run on the graph with (A,B) inserted twice and (B,C) once
C9_Witness ==
  \E a, b, c \in GraphIds :
    /\ DMCompiled /\ a # b /\ b # c /\ a # c
    /\ DMState = C9_Twice(a, b, c)
    /\ dmGraph[a].neighbors[b] = 2
    /\ DMDistance(a, c) = 3

\* C10: a node without edges has -1 in every off-diagonal entry of its row and
\* of its column, whatever else the graph holds.
C10_IsolatedNode ==
  DMCompiled =>
    \A a, b \in DOMAIN dmGraph :
      (a # b /\ DMIsolated(a)) => DMDistance(a, b) = -1 /\ DMDistance(b, a) = -1

\* compile() has run on a graph with a node without edges and two other nodes
\* joined by an edge
C10_Witness ==
  /\ DMCompiled
  /\ \E a, b, c \in DOMAIN dmGraph :
       /\ a # b /\ a # c /\ b # c
       /\ DMIsolated(a)
       /\ DMDistance(b, c) = 1
       /\ DMDistance(a, b) = -1

\* the number of addEdge calls made so far with the pair {a, b}
DMCallsWith(a, b) == IF {a, b} \in DOMAIN dmEdgeCalls THEN dmEdgeCalls[{a, b}] ELSE 0
\* neighbors[b] of node a; 0 stands for an absent entry or an absent node
DMWeight(a, b) ==
  IF DMHas(dmGraph, a) /\ b \in DOMAIN dmGraph[a].neighbors THEN dmGraph[a].neighbors[b] ELSE 0

\* C11: after any sequence of addEdge calls, for all distinct ids A and B,
\* neighbors of A at B equals neighbors of B at A, and both equal the number of
\* addEdge calls made with the pair {A,B} in either argument order; the entry
\* is absent when that number is 0.
C11_WeightIsCallCount ==
  \A a, b \in GraphIds :
    a # b =>
      /\ DMWeight(a, b) = DMCallsWith(a, b)
      /\ DMWeight(b, a) = DMCallsWith(a, b)
      /\ DMCallsWith(a, b) = 0 =>
           /\ DMHas(dmGraph, a) => b \notin DOMAIN dmGraph[a].neighbors
           /\ DMHas(dmGraph, b) => a \notin DOMAIN dmGraph[b].neighbors

\* a pair has been given to addEdge twice, in both argument orders or not,
\* while another pair of registered nodes has never been given
C11_Witness ==
  \E a, b, c \in DOMAIN dmGraph :
    /\ a # b /\ a # c /\ b # c
    /\ DMCallsWith(a, b) = 2
    /\ dmGraph[a].neighbors[b] = 2
    /\ dmGraph[b].neighbors[a] = 2
    /\ DMCallsWith(a, c) = 0
    /\ DMCallsWith(b, c) = 1

\* C17: with an identifier function other than identity, addEdge(r1, r2) on
\* raw values that resolve to two registered ids creates no node, raises no
\* duplicate-id error, and adds 1 to the weight between the resolved ids, in
\* both directions.
C17_ResolvedEndpoints ==
  \A r1, r2 \in RawIds :
    LET id1 == DMIdentifier(r1)
        id2 == DMIdentifier(r2)
        s == DMAddEdgeStep(DMState, r1, r2)
    IN (dmIdentifier # IdentityFn /\ id1 # id2 /\ DMHas(dmGraph, id1) /\ DMHas(dmGraph, id2))
       => /\ ~ DMAddEdgeThrows(DMState, r1, r2)
          /\ s.keys = dmKeys
          /\ id2 \in DOMAIN s.g[id1].neighbors
          /\ id1 \in DOMAIN s.g[id2].neighbors
          /\ s.g[id1].neighbors[id2] = DMWeight(id1, id2) + 1
          /\ s.g[id2].neighbors[id1] = DMWeight(id2, id1) + 1

(***************************************************************************)
(* Properties of the TreeBuilder                                           *)
(***************************************************************************)
\* the last call was compile()
TBCompiled == tbRet.op = "compile"
\* compile() returned the root object, not undefined
TBReturnedForest == TBCompiled /\ tbRet.value.type = "object"
\* the record {id: id}
PlainRecord(id) == [id |-> id, name |-> NoName]
\* the registry before any call
TBEmpty == [t |-> << >>, keys |-> << >>, sz |-> 0]

\* the number of times the node id occurs below a node with these children
RECURSIVE TBOccurrences(_, _, _, _)
TBOccurrences(t, children, id, fuel) ==
  IF fuel = 0 \/ children = << >> THEN 0
  ELSE (IF Head(children) = id THEN 1 ELSE 0)
       + TBOccurrences(t, t[Head(children)].children, id, fuel - 1)
       + TBOccurrences(t, Tail(children), id, fuel)

\* C4: after addChild calls in which no id is the child more than once,
\* compile() returns a forest and every registered node occurs in it exactly
\* once: the parentless nodes as children of the synthetic root, every other
\* node below it, in the children of its one parent.
C4_ForestOfAllNodes ==
  TBCompiled =>
    /\ TBReturnedForest
    /\ \A id \in DOMAIN tbTree :
         /\ TBOccurrences(tbTree, tbRet.value.children, id, Len(tbKeys) + 1) = 1
         /\ tbTree[id].parent = Undefined <=> id \in SeqToSet(tbRet.value.children)
         /\ tbTree[id].parent # Undefined =>
              \A p \in DOMAIN tbTree :
                id \in SeqToSet(tbTree[p].children) <=> p = tbTree[id].parent

\* the registry holds a cycle of three nodes: a's children contain b, b's
\* contain c, c's contain a
TBThreeCycle ==
  \E a, b, c \in DOMAIN tbTree :
    /\ a # b /\ b # c /\ a # c
    /\ b \in SeqToSet(tbTree[a].children)
    /\ c \in SeqToSet(tbTree[b].children)
    /\ a \in SeqToSet(tbTree[c].children)

\* C5: when the registry holds a cycle of three nodes, compile() returns
\* undefined, the cycle-detected result, not a tree.
C5_CycleReported ==
  (TBCompiled /\ TBThreeCycle) => tbRet.value.type = "undefined"

\* the registry after addChild({id:"root"},{id:"x"}) then addChild({id:"x"},{id:"y"})
C6_Registry ==
  TBAddChildStep(TBAddChildStep(TBEmpty, PlainRecord("root"), PlainRecord("x")).st,
                 PlainRecord("x"), PlainRecord("y")).st

\* C6: after addChild({id:"root"},{id:"x"}) and addChild({id:"x"},{id:"y"}),
\* compile() returns the wrapper named "root" whose only child is the node with
\* id "root", whose only child is x, whose only child is y, which has none.
C6_EndToEnd ==
  (TBCompiled /\ TBState = C6_Registry) =>
    /\ TBReturnedForest
    /\ tbRet.value.name = "root"
    /\ tbRet.value.children = <<"root">>
    /\ tbTree["root"].children = <<"x">>
    /\ tbTree["x"].children = <<"y">>
    /\ tbTree["y"].children = << >>

\* C7: addChild(p, c), when the node with c's id has a parent, throws the
\* has-a-parent error and leaves the registry as it was: no parent or children
\* changes, no node created. Stated of every registry the calls can reach and
\* every pair of records.
C7_RejectedAttach ==
  \A p, c \in RichRecords :
    (TBHas(tbTree, TBIdentifier(c)) /\ tbTree[TBIdentifier(c)].parent # Undefined)
    => LET r == TBAddChildStep(TBState, p, c)
       IN r.threw /\ r.st = TBState

\* addChild has thrown while an id is still unregistered, and the stored record
\* of a node that has a parent is not the only record with its id
C7_Witness ==
  /\ tbRet.op = "addChild"
  /\ tbRet.kind = "throw"
  /\ \E id \in RecordIds : ~ TBHas(tbTree, id)
  /\ \E id \in DOMAIN tbTree : tbTree[id].parent # Undefined

\* C8: in the TreeBuilder and in the DistanceMatrix, createNode(r) throws the
\* duplicate-id error whenever identifier(r) is registered, by createNode or by
\* addChild/addEdge, and the failed call leaves the registry and size() as
\* they were.
C8_DuplicateRejected ==
  [][/\ \A r \in RichRecords :
          (TBHas(tbTree, TBIdentifier(r)) /\ TBCreateNode(r))
          => /\ tbRet'.op = "createNode"
             /\ tbRet'.kind = "throw"
             /\ tbTree' = tbTree
             /\ tbKeys' = tbKeys
             /\ TBSize(tbKeys') = TBSize(tbKeys)
     /\ \A r \in GraphIds :
          (DMHas(dmGraph, DMIdentifier(r)) /\ DMCreateNode(r))
          => /\ dmRet'.op = "createNode"
             /\ dmRet'.kind = "throw"
             /\ dmGraph' = dmGraph
             /\ dmKeys' = dmKeys
             /\ DMSize(dmKeys') = DMSize(dmKeys)]_vars

\* createNode has thrown on an id that addChild registered
C8_Witness ==
  /\ tbRet.op = "createNode"
  /\ tbRet.kind = "throw"
  /\ \E id \in DOMAIN tbTree : tbTree[id].parent # Undefined

\* the ids of the nodes reachable through children from the nodes `frontier`
RECURSIVE TBBelow(_, _, _)
TBBelow(t, frontier, seen) ==
  IF frontier \subseteq seen THEN seen
  ELSE TBBelow(t, UNION {SeqToSet(t[id].children) : id \in frontier \ seen}, seen \cup frontier)

\* C12: the forest compile() returned is a snapshot: a later addChild or
\* createNode on the same builder changes no children sequence reachable from
\* it. Stated of the call that follows the compile().
C12_ForestIsSnapshot ==
  [][(TBReturnedForest /\ tbRet'.op # "compile")
     => \A id \in TBBelow(tbTree, SeqToSet(tbRet.value.children), {}) :
          tbTree'[id].children = tbTree[id].children]_vars

\* the child ids of the addChild(p, c) calls that returned, in call order
TBCallsFor(p) == IF p \in DOMAIN tbAttached THEN tbAttached[p] ELSE << >>
\* the children of node p as the forest compile() returned lists them: the
\* forest holds the registry's own node objects
TBForestChildren(p) == tbTree[p].children
\* the nodes of the forest compile() returned
TBForestNodes == TBBelow(tbTree, SeqToSet(tbRet.value.children), {})

\* C18: for every node p, p's children in the registry, and in the forest
\* compile() returns, are the children of the successful addChild(p, c) calls
\* in the order of the calls, whatever other addChild calls came in between.
C18_ChildrenInCallOrder ==
  /\ \A p \in DOMAIN tbTree : tbTree[p].children = TBCallsFor(p)
  /\ TBReturnedForest => \A p \in TBForestNodes : TBForestChildren(p) = TBCallsFor(p)

\* C18 witness: compile() returned a forest in which a node p has two
\* children, and the creation order of the nodes shows that p was made a child
\* of a third node between the two calls: addChild(p, c1), addChild(r, p),
\* addChild(p, c2)
C18_Witness ==
  /\ TBReturnedForest
  /\ \E p \in TBForestNodes :
       /\ Len(TBForestChildren(p)) = 2
       /\ tbTree[p].parent # Undefined
       /\ tbKeys = <<TBForestChildren(p)[1], p, tbTree[p].parent, TBForestChildren(p)[2]>>

\* the depth-first traversal of compile() with the nodes told apart by their
\* ids: whether some node is reached a second time, and the ids visited
RECURSIVE RevisitedBelow(_, _, _, _, _)
RevisitedBelow(t, children, k, visited, found) ==
  IF k > Len(children) THEN [found |-> found, visited |-> visited]
  ELSE IF children[k] \in visited
       THEN RevisitedBelow(t, children, k + 1, visited, TRUE)
       ELSE LET r == RevisitedBelow(t, t[children[k]].children, 1, visited \cup {children[k]}, FALSE)
            IN RevisitedBelow(t, children, k + 1, r.visited, found \/ r.found)

\* C15: compile() returns undefined, the cycle-detected result, exactly when
\* the depth-first traversal from the synthetic root reaches some registered
\* node more than once, the nodes being told apart by their ids; a registry
\* whose child relation is a forest over distinct ids compiles to a tree.
C15_CycleExactly ==
  TBCompiled =>
    (tbRet.value.type = "undefined"
     <=> RevisitedBelow(tbTree, TBRootChildren(tbTree, tbKeys), 1, {}, FALSE).found)

\* C16: with any identifier function, the display name of every node is the
\* name field of its record when the record has one, and otherwise the id of
\* the node, the value the identifier function returned for the record.
C16_DisplayName ==
  \A id \in DOMAIN tbTree :
    tbTree[id].name = (IF tbTree[id].data.name # NoName THEN tbTree[id].data.name ELSE tbTree[id].id)

\* how often the id c occurs in a children sequence
TBCount(children, c) == Cardinality({i \in 1..Len(children) : children[i] = c})

\* C22: after any createNode and addChild calls, returned or thrown, for all
\* registered nodes c and p: c occurs once in p's children when c's parent id
\* is p's id and not at all otherwise (so in no other node's children); and
\* no call changes a parent id that is set.
C22_OneParent ==
  [][/\ \A p, c \in DOMAIN tbTree' :
          TBCount(tbTree'[p].children, c) = (IF tbTree'[c].parent = tbTree'[p].id THEN 1 ELSE 0)
     /\ \A c \in DOMAIN tbTree :
          tbTree[c].parent # Undefined => tbTree'[c].parent = tbTree[c].parent]_vars

\* C22 witness: a node has a parent other than itself, and the last call
\* was an addChild that threw because its child has a parent
C22_Witness ==
  /\ tbRet.op = "addChild" /\ tbRet.kind = "throw"
  /\ \E c \in DOMAIN tbTree :
       /\ tbTree[c].parent # Undefined /\ tbTree[c].parent # c
       /\ tbTree[tbTree[c].parent].children = <<c>>
       /\ tbTree[c].children = << >>

(***************************************************************************)
(* Properties of parseOntology                                             *)
(***************************************************************************)
\* parseOntology has returned or thrown
POEnded == poRet.kind \in {"return", "throw"}

\* C14: after parseOntology on any list of term records, no node registered in
\* the tree or in the distance graph has an id that starts with 'xl_en',
\* whether the name was seen as a term or only as the broader term of another.
C14_AliasesRemoved ==
  POEnded => \A id \in (DOMAIN tbTree) \cup (DOMAIN dmGraph) : ~ StartsWithXlEn(id)

\* the term record is one parseOntology accepts when its name is new: a valid
\* '@about', not an alias, with a broader term that is not empty
POAcceptable(term) ==
  /\ StartsWithTerms(term.about)
  /\ ~ StartsWithXlEn(getTerm(term.about))
  /\ term.broader # NoBroader
  /\ getTerm(term.broader) # ""

\* C19: parseOntology skips a record whose term name it accepted before: no id
\* is passed to tree.addChild as the child twice, and parseOntology never ends
\* with the has-a-parent error of addChild or the duplicate-id error of
\* createNode (what it throws is thrown by its own two checks).
C19_RepeatsSkipped ==
  POEnded =>
    /\ \A i, j \in 1..Len(childCalls) : childCalls[i] = childCalls[j] => i = j
    /\ poRet.kind = "throw" => poRet.op = "parseOntology"
    /\ tbRet.kind # "throw" /\ dmRet.kind # "throw"

\* C19 witness: parseOntology returned on a dataset in which an accepted term
\* name comes again, with another broader term, and was passed on once
C19_Witness ==
  /\ poRet = POReturned
  /\ \E i, j \in 1..Len(ontology) :
       /\ i < j
       /\ POAcceptable(ontology[i]) /\ POAcceptable(ontology[j])
       /\ ontology[i].about = ontology[j].about
       /\ ontology[i].broader # ontology[j].broader
       /\ childCalls = <<getTerm(ontology[i].about)>>
       /\ tbTree[getTerm(ontology[i].about)].parent = getTerm(ontology[i].broader)

(***************************************************************************)
(* Properties of the tree visualization                                    *)
(***************************************************************************)
\* the node holds all the children its data has in d._children and none in
\* d.children
D3Collapsed(d) ==
  /\ ~ Truthy(dChildren[d])
  /\ HDataChildren(hierarchy, d) # << >> => d_children[d] = JSArray(HDataChildren(hierarchy, d))
\* the node holds all the children its data has in d.children and none in
\* d._children
D3Expanded(d) ==
  /\ ~ Truthy(d_children[d])
  /\ HDataChildren(hierarchy, d) # << >> => dChildren[d] = JSArray(HDataChildren(hierarchy, d))

\* C20: when the second click of a double click came on a node that was
\* expanded, the node and all the nodes below it are collapsed; when it came
\* on a node that was collapsed, they are all expanded.
C20_DoubleClickAll ==
  d3Ret.op = "dblclick" =>
    \A n \in HBelow(hierarchy, d3Ret.node) :
      IF d3Ret.was = "expanded" THEN D3Collapsed(n) ELSE D3Expanded(n)

\* C20 witness: the double click came on a collapsed node, in a chain of
\* nodes, whose child was expanded and whose grandchild was collapsed, and
\* has expanded all three
C20_Witness ==
  /\ d3Ret = [op |-> "dblclick", node |-> HRoot, was |-> "collapsed", open |-> {2}]
  /\ hierarchy = [n \in HNodes \ {HRoot} |-> n - 1]
  /\ \A n \in {1, 2, 3} : Truthy(dChildren[n])

\* C21: a second click that arrives while the timer of the first is pending
\* clears the timer, so that the single-click toggle does not run, runs the
\* double-click action alone and leaves the click counter at 0; when the
\* timer fires instead, the single-click action runs once (no timer is left)
\* and moves only the clicked node's own children between d.children and
\* d._children. A timer is pending exactly while one click is counted.
C21_ClickOrDoubleClick ==
  [][/\ (clicks = 1 /\ d3Ret'.op = "dblclick")
          => /\ clicks' = 0
             /\ timer' = NoTimer
             /\ [c |-> dChildren', u |-> d_children']
                  = dblclick(D3State, d3Ret'.node, ~ Truthy(dChildren[d3Ret'.node]))
     /\ (clicks = 1 /\ d3Ret'.op = "timeout")
          => /\ d3Ret'.node = timer
             /\ clicks' = 0
             /\ timer' = NoTimer
             /\ \A n \in HNodes \ {timer} :
                  dChildren'[n] = dChildren[n] /\ d_children'[n] = d_children[n]
             /\ IF Truthy(dChildren[timer])
                THEN d_children'[timer] = dChildren[timer] /\ ~ Truthy(dChildren'[timer])
                ELSE dChildren'[timer] = d_children[timer] /\ ~ Truthy(d_children'[timer])
     /\ (timer' # NoTimer) <=> (clicks' = 1)]_vars

\* C21 witness: the second click came while the timer was pending, on a node
\* below the root that was collapsed and has children: they are shown, no
\* timer is pending and no click is counted
C21_Witness ==
  /\ d3Ret.op = "dblclick" /\ d3Ret.was = "collapsed" /\ d3Ret.node # HRoot
  /\ Truthy(dChildren[d3Ret.node])
  /\ clicks = 0 /\ timer = NoTimer

\* C26: the double-click action runs on a node only when the click before,
\* whose timer is pending, was on that same node: a click on another node
\* while the timer is pending neither runs dblclick on that node nor clears
\* the timer of the first.
C26_SameNodePair ==
  [][(clicks = 1 /\ d3Ret'.op = "dblclick") => d3Ret'.node = timer]_vars

\* the nodes d.children and d._children hold, one after the other
D3Held(d) ==
  (IF Truthy(dChildren[d]) THEN dChildren[d].items ELSE << >>)
    \o (IF Truthy(d_children[d]) THEN d_children[d].items ELSE << >>)

\* C27: after the initial collapse and after any clicks and double clicks,
\* no node has both d.children and d._children non-empty, and the two
\* together are the children the node has in the data, in the data's order.
C27_ChildrenKept ==
  \A d \in DOMAIN dChildren :
    /\ ~ (Truthy(dChildren[d]) /\ Truthy(d_children[d]))
    /\ D3Held(d) = HDataChildren(hierarchy, d)

\* C27 witness: in a chain of nodes, single clicks have expanded the root's
\* child and then collapsed the root, the grandchild being collapsed since
\* the start
C27_Witness ==
  /\ d3Ret.op = "timeout" /\ d3Ret.node = HRoot
  /\ hierarchy = [n \in HNodes \ {HRoot} |-> n - 1]
  /\ Truthy(d_children[1]) /\ Truthy(dChildren[2]) /\ Truthy(d_children[3])

(***************************************************************************)
(* Properties of the server process                                        *)
(***************************************************************************)
\* C13: each compile() runs at most once in the life of the process, and no
\* /get-tree or /get-distance-matrix request runs one: a handler only sends
\* the stored result, whatever the requests and whenever the load ends.
C13_CompileOnce ==
  [][/\ compileCalls'.tree <= 1
     /\ compileCalls'.distanceMatrix <= 1
     /\ (GetTree \/ GetDistanceMatrix)
        => /\ compileCalls' = compileCalls
           /\ tbRet' = tbRet
           /\ dmRet' = dmRet
           /\ response'.body \in {selfTree, selfDistanceMatrix}]_vars

\* both routes have been answered after a load that compiled the tree and the
\* matrix of a dataset with two terms
C13_Witness ==
  /\ pc = "loaded"
  /\ compileCalls = [tree |-> 1, distanceMatrix |-> 1]
  /\ Len(dmKeys) = 2
  /\ response.route = "/get-distance-matrix"
  /\ response.body = selfDistanceMatrix
  /\ Len(response.body.nodes) = 2

\* C23: processData returns for every dataset parseOntology returns on, also
\* when a term of the tree has no row in the definitions, and what it stores
\* holds one metadata entry per node of the distance matrix.
C23_ProcessDataCompletes ==
  (pc # "awaiting" /\ poRet = POReturned)
    => /\ pc = "loaded"
       /\ Len(selfDistanceMatrix.nodes) = Len(dmKeys)

\* C24: the term list delivered with the tree names the terms in the order of
\* the rows of the distance matrix: the i-th metadata entry is that of the
\* i-th id of ontologyList.
C24_ListOrderIsMatrixOrder ==
  pc = "loaded"
    => /\ Len(selfTree.ontologyList) = Len(selfDistanceMatrix.nodes)
       /\ \A i \in 1..Len(selfTree.ontologyList) :
            selfDistanceMatrix.nodes[i].name = DashesToSpaces(selfTree.ontologyList[i])

\* C25: whenever a request handler can run, self.tree and self.distanceMatrix
\* are both the empty objects of the constructor or both what the one
\* processData run returned, and a handler has sent nothing else.
C25_PublishedTogether ==
  Serving =>
    /\ \/ selfTree = JSEmptyObject /\ selfDistanceMatrix = JSEmptyObject
       \/ /\ pc = "loaded"
          /\ \E r \in {ProcessData(ontology, definitions)} :
               /\ r.out.kind = "return"
               /\ selfTree = r.out.value.tree
               /\ selfDistanceMatrix = r.out.value.distanceMatrix
    /\ response.route = "/get-tree" => response.body = selfTree
    /\ response.route = "/get-distance-matrix" => response.body = selfDistanceMatrix

\* C25 witness: the load has stored the tree and the matrix of a term and its
\* broader term, and /get-tree has been answered with that tree
C25_Witness ==
  /\ pc = "loaded"
  /\ response.route = "/get-tree"
  /\ Len(response.body.ontologyList) = 2
  /\ Len(selfDistanceMatrix.nodes) = 2

====
